---------------------------- MODULE Spec2Model ----------------------------
(***************************************************************************)
(* State-machine model of the quiz game loop of src/App.tsx: the global    *)
(* and per-question countdowns, the focus score that dilates time, the     *)
(* judgment handler (handleSwipe), the difficulty controller               *)
(* (checkDifficulty) and the asynchronous question refills                 *)
(* (loadQuestions / generateQuestions).                                    *)
(*                                                                         *)
(* Units.  The code works on JavaScript numbers; the model keeps them as   *)
(* integers: times are in hundredths of a second (0.07 s = 7), the focus   *)
(* score is in hundredths of a point (0.15 = 15, 55 = 5500), and a round   *)
(* accuracy c/10 is kept as the number of tenths c (0.5 = 5).  The         *)
(* comparisons of the code (<= 0.5, > 0.9 on the two-round average) give   *)
(* the same verdicts on the doubles c/10 as on these integers.             *)
(*                                                                         *)
(* Atomicity.  Every handler (a tick of the interval, a swipe, the         *)
(* completion of a refill, a game start) runs to completion, React         *)
(* re-renders, and the effects whose dependencies changed run before the   *)
(* next handler: an action is the handler followed by RunEffects.  The     *)
(* values a handler reads from its closure are those of the last render,   *)
(* i.e. of the state the action starts from.                               *)
(***************************************************************************)
EXTENDS Integers, Sequences, FiniteSets, TLC

VARIABLES
    gameState,               \* GameState: MENU, LOADING, PLAYING, GAME_OVER
    questions,               \* MathProblem[]: the queue, front = displayed
    score,
    gameTimeLeft,            \* hundredths of a second
    questionTimeLeft,        \* hundredths of a second
    currentQuestionMaxTime,  \* hundredths of a second
    streak,
    level,
    questionsAnswered,
    roundCorrectCount,
    roundHistory,            \* accuracies of earlier rounds, in tenths
    focusScore,              \* hundredths of a point
    pending,                 \* loadQuestions calls in flight
    nextId,                  \* source of fresh question ids
    session,                 \* number of game starts so far
    calls,                   \* the handleSwipe invocations of the last step
    intervals,               \* handles of the intervals that are armed
    globalTimerRef,          \* globalTimerRef.current, 0 for null
    armedFor,                \* ms since the interval was armed or last fired
    sinceTick,               \* ms since the last tick (since the game start)
    ticks,                   \* ticks of the session so far
    roundLog,                \* isSuccess of the judgments of the round so far
    judgedIds,               \* ids of the questions judged in the session
    leftBehind,              \* score and level at the last game start
    prob                     \* the problem the local generator made last

vars == <<gameState, questions, score, gameTimeLeft, questionTimeLeft,
          currentQuestionMaxTime, streak, level, questionsAnswered,
          roundCorrectCount, roundHistory, focusScore, pending, nextId,
          session, calls, intervals, globalTimerRef, armedFor, sinceTick,
          ticks, roundLog, judgedIds, leftBehind, prob>>

-----------------------------------------------------------------------------
(* Program constants *)

MAX_GAME_TIME == 150

QUESTIONS_PER_ROUND == 10

\* hundredths per unit of the code's numbers
Scale == 100

FOCUS_START == 50

FOCUS_MAX == 100

FOCUS_DECAY == 15

FOCUS_REWARD == 4

FOCUS_PENALTY == 12

FOCUS_HIGH == 55

FOCUS_LOW == 30

MAX_LEVEL == 10

REFILL_BELOW == 5

\* period of the interval, in ms
TICK_MS == 100

-----------------------------------------------------------------------------
(* Bounds of the exploration *)

\* game starts explored
MaxSessions == 2

\* Spec: ticks are explored during the first MaxElapsed hundredths of a game
MaxElapsed == 450

\* Spec: swipes are explored for the first MaxAnswered judgments of a game
MaxAnswered == 3

-----------------------------------------------------------------------------
(* Helpers *)

Min(a, b) == IF a <= b THEN a ELSE b

Max(a, b) == IF a >= b THEN a ELSE b

Last(seq) == seq[Len(seq)]

Directions == {"LEFT", "RIGHT", "NONE"}

\* The program state as one record, so that a handler is a function on it.
Cur ==
    [gameState |-> gameState, questions |-> questions, score |-> score,
     gameTimeLeft |-> gameTimeLeft, questionTimeLeft |-> questionTimeLeft,
     currentQuestionMaxTime |-> currentQuestionMaxTime, streak |-> streak,
     level |-> level, questionsAnswered |-> questionsAnswered,
     roundCorrectCount |-> roundCorrectCount, roundHistory |-> roundHistory,
     focusScore |-> focusScore, pending |-> pending, nextId |-> nextId,
     session |-> session, calls |-> <<>>, intervals |-> intervals,
     globalTimerRef |-> globalTimerRef, armedFor |-> armedFor,
     sinceTick |-> sinceTick, ticks |-> ticks, roundLog |-> roundLog,
     judgedIds |-> judgedIds, leftBehind |-> leftBehind, prob |-> prob]

Commit(s) ==
    /\ gameState' = s.gameState
    /\ questions' = s.questions
    /\ score' = s.score
    /\ gameTimeLeft' = s.gameTimeLeft
    /\ questionTimeLeft' = s.questionTimeLeft
    /\ currentQuestionMaxTime' = s.currentQuestionMaxTime
    /\ streak' = s.streak
    /\ level' = s.level
    /\ questionsAnswered' = s.questionsAnswered
    /\ roundCorrectCount' = s.roundCorrectCount
    /\ roundHistory' = s.roundHistory
    /\ focusScore' = s.focusScore
    /\ pending' = s.pending
    /\ nextId' = s.nextId
    /\ session' = s.session
    /\ calls' = s.calls
    /\ intervals' = s.intervals
    /\ globalTimerRef' = s.globalTimerRef
    /\ armedFor' = s.armedFor
    /\ sinceTick' = s.sinceTick
    /\ ticks' = s.ticks
    /\ roundLog' = s.roundLog
    /\ judgedIds' = s.judgedIds
    /\ leftBehind' = s.leftBehind
    /\ prob' = s.prob

-----------------------------------------------------------------------------
(* Pure functions of App.tsx *)

getQuestionTimeLimit(lvl) ==
    CASE lvl = 1 -> 4 * Scale
      [] lvl = 2 -> 6 * Scale
      [] lvl = 3 -> 6 * Scale
      [] lvl = 4 -> 10 * Scale
      [] lvl = 5 -> 14 * Scale
      [] lvl = 6 -> 16 * Scale
      [] lvl = 7 -> 20 * Scale
      [] lvl = 8 -> 22 * Scale
      [] lvl = 9 -> 26 * Scale
      [] lvl = 10 -> 30 * Scale
      [] OTHER -> 4 * Scale

getFocusState(f) ==
    IF f >= FOCUS_HIGH * Scale THEN "HIGH"
    ELSE IF f > FOCUS_LOW * Scale THEN "MEDIUM"
    ELSE "LOW"

\* mutant: a focus score of exactly 30 still runs at the normal rate
timePassed_StrictLow(f) ==
    IF f >= FOCUS_HIGH * Scale THEN 7
    ELSE IF f < FOCUS_LOW * Scale THEN 14
    ELSE 10

\* timePassed of one tick, from the focus score the tick sees
timePassed(f) ==
    IF f >= FOCUS_HIGH * Scale THEN 7
    ELSE IF f <= FOCUS_LOW * Scale THEN 14
    ELSE 10

\* mutant: anything but RIGHT on a wrong equation counts as a success
IsSuccess_ElseDeny(direction, isActuallyCorrect) ==
    \/ direction = "RIGHT" /\ isActuallyCorrect
    \/ direction # "RIGHT" /\ ~isActuallyCorrect

\* isSuccess of handleSwipe
IsSuccess(direction, isActuallyCorrect) ==
    /\ direction # "NONE"
    /\ \/ direction = "RIGHT" /\ isActuallyCorrect
       \/ direction = "LEFT" /\ ~isActuallyCorrect

-----------------------------------------------------------------------------
(* Question source (generateQuestions of the question service) *)

\* The isCorrect flags of a batch are random in the code; a batch is explored
\* with the flags alternating, starting with either value.
Patterns == {0, 1}

\* n problems tagged difficulty = lvl, with fresh ids
Problems(n, lvl, firstId, pattern) ==
    [i \in 1..n |->
        [id |-> firstId + i - 1,
         isCorrect |-> ((i + pattern) % 2 = 0),
         difficulty |-> lvl]]

\* The remote call of generateQuestions either fails (the client throws, the
\* response has no text, the text is not JSON, or the JSON has no "problems"
\* array), or it answers with a "problems" array of some length n.
RemoteFailed == [ok |-> FALSE, n |-> 0]

RemoteProblems(n) == [ok |-> TRUE, n |-> n]

\* generateQuestions(count, level), given the outcome of the remote call:
\* the problems of the remote answer, each overwritten with difficulty =
\* level, or else the count problems of the local generator
generateQuestions(count, lvl, firstId, pattern, remote) ==
    IF remote.ok
    THEN Problems(remote.n, lvl, firstId, pattern)
    ELSE Problems(count, lvl, firstId, pattern)

\* loadQuestions(targetLevel), up to its await: a request in flight.
\* starter marks the call awaited by startGame.
loadQuestions(s, targetLevel, starter) ==
    [s EXCEPT !.pending =
        Append(@, [level |-> targetLevel, starter |-> starter,
                   session |-> s.session])]

-----------------------------------------------------------------------------
(* Difficulty controller *)

\* mutant: Rule 1 with a strict comparison
LevelDownRule_Strict(acc) == 10 * acc < 5 * QUESTIONS_PER_ROUND

\* Rule 1: finalRoundAccuracy <= 0.5, acc in tenths
LevelDownRule(acc) == 10 * acc <= 5 * QUESTIONS_PER_ROUND

\* mutant: Rule 2 with average >= 0.9
LevelUpRule_AtLeast(acc, history) ==
    /\ Len(history) > 0
    /\ acc + Last(history) >= 2 * 9

\* mutant: with an empty history Rule 2 judges the round on its own
LevelUpRule_NoHistory(acc, history) ==
    IF Len(history) > 0
    THEN acc + Last(history) > 2 * 9
    ELSE acc + acc > 2 * 9

\* Rule 2: the average of this round and the last one in the history is
\* strictly above 0.9, i.e. (acc + prev) / 2 > 9 tenths
LevelUpRule(acc, history) ==
    /\ Len(history) > 0
    /\ acc + Last(history) > 2 * 9

\* mutant: a matched rule clears the history even when the level is clamped
LevelChanges_Always(shouldUpdate, newLevel, oldLevel) == shouldUpdate

\* the test that decides between a level change and an append
LevelChanges(shouldUpdate, newLevel, oldLevel) ==
    shouldUpdate /\ newLevel # oldLevel

\* mutant: the new level is not clamped to 1..10
checkDifficulty_NoClamp(s0, s, acc) ==
    LET levelDown == LevelDownRule(acc)
        levelUp == ~levelDown /\ LevelUpRule(acc, s0.roundHistory)
        newLevel ==
            IF levelDown THEN s0.level - 1
            ELSE IF levelUp THEN s0.level + 1
            ELSE s0.level
    IN  IF newLevel # s0.level
        THEN [loadQuestions(s, newLevel, FALSE) EXCEPT
                !.level = newLevel,
                !.roundHistory = <<>>]
        ELSE [s EXCEPT !.roundHistory = Append(@, acc)]

\* mutant: the refill of a level change asks for the level being left
checkDifficulty_OldLevel(s0, s, acc) ==
    LET levelDown == LevelDownRule(acc)
        levelUp == ~levelDown /\ LevelUpRule(acc, s0.roundHistory)
        newLevel ==
            IF levelDown THEN Max(1, s0.level - 1)
            ELSE IF levelUp THEN Min(MAX_LEVEL, s0.level + 1)
            ELSE s0.level
        shouldUpdate == levelDown \/ levelUp
    IN  IF LevelChanges(shouldUpdate, newLevel, s0.level)
        THEN [loadQuestions(s, s0.level, FALSE) EXCEPT
                !.level = newLevel,
                !.roundHistory = <<>>]
        ELSE LET s1 == [s EXCEPT !.roundHistory = Append(@, acc)]
             IN  IF Len(s0.questions) < REFILL_BELOW
                 THEN loadQuestions(s1, s0.level, FALSE)
                 ELSE s1

\* mutant: a round that ends without a level change requests no refill
checkDifficulty_NoRefill(s0, s, acc) ==
    LET levelDown == LevelDownRule(acc)
        levelUp == ~levelDown /\ LevelUpRule(acc, s0.roundHistory)
        newLevel ==
            IF levelDown THEN Max(1, s0.level - 1)
            ELSE IF levelUp THEN Min(MAX_LEVEL, s0.level + 1)
            ELSE s0.level
        shouldUpdate == levelDown \/ levelUp
    IN  IF LevelChanges(shouldUpdate, newLevel, s0.level)
        THEN [loadQuestions(s, newLevel, FALSE) EXCEPT
                !.level = newLevel,
                !.roundHistory = <<>>]
        ELSE [s EXCEPT !.roundHistory = Append(@, acc)]

\* checkDifficulty(finalRoundAccuracy); acc is the accuracy in tenths.
\* level, roundHistory and questions.length are read from the closure (s0),
\* the state updates are queued on s.
checkDifficulty(s0, s, acc) ==
    LET levelDown == LevelDownRule(acc)
        levelUp == ~levelDown /\ LevelUpRule(acc, s0.roundHistory)
        newLevel ==
            IF levelDown THEN Max(1, s0.level - 1)
            ELSE IF levelUp THEN Min(MAX_LEVEL, s0.level + 1)
            ELSE s0.level
        shouldUpdate == levelDown \/ levelUp
    IN  IF LevelChanges(shouldUpdate, newLevel, s0.level)
        THEN [loadQuestions(s, newLevel, FALSE) EXCEPT
                !.level = newLevel,
                !.roundHistory = <<>>]
        ELSE LET s1 == [s EXCEPT !.roundHistory = Append(@, acc)]
             IN  IF Len(s0.questions) < REFILL_BELOW
                 THEN loadQuestions(s1, s0.level, FALSE)
                 ELSE s1

-----------------------------------------------------------------------------
(* Judgment handler *)

\* the entry handleSwipe leaves in calls: its argument, whether it got past
\* the empty-queue return, the card's isCorrect, its local isSuccess and the
\* sound it played
CallRecord(direction, judged, isCorrect, isSuccess, sound) ==
    [direction |-> direction, judged |-> judged, isCorrect |-> isCorrect,
     isSuccess |-> isSuccess, sound |-> sound]

\* mutant: the timer is not reset by the judgment
resetQuestionTimer_Skip(s) == s

\* "Reset Timer for next question immediately", from the closure's level
resetQuestionTimer(s) ==
    LET nextLimit == getQuestionTimeLimit(s.level)
    IN  [s EXCEPT
           !.currentQuestionMaxTime = nextLimit,
           !.questionTimeLeft = nextLimit]

\* mutant: the bonus is taken from the streak after its increment
applySuccess_NewStreak(s, closureStreak) ==
    [s EXCEPT
       !.score = @ + 10 + (closureStreak + 1) * 2,
       !.streak = @ + 1,
       !.roundCorrectCount = @ + 1,
       !.focusScore = Min(FOCUS_MAX * Scale, @ + FOCUS_REWARD * Scale)]

\* mutant: the focus reward is not capped
applySuccess_NoCap(s, closureStreak) ==
    [s EXCEPT
       !.score = @ + 10 + closureStreak * 2,
       !.streak = @ + 1,
       !.roundCorrectCount = @ + 1,
       !.focusScore = @ + FOCUS_REWARD * Scale]

\* mutant: a success earns a second of game time
applySuccess_TimeBonus(s, closureStreak) ==
    [s EXCEPT
       !.score = @ + 10 + closureStreak * 2,
       !.streak = @ + 1,
       !.roundCorrectCount = @ + 1,
       !.focusScore = Min(FOCUS_MAX * Scale, @ + FOCUS_REWARD * Scale),
       !.gameTimeLeft = @ + Scale]

\* the success branch; closureStreak is the streak of the last render
applySuccess(s, closureStreak) ==
    [s EXCEPT
       !.score = @ + 10 + closureStreak * 2,
       !.streak = @ + 1,
       !.roundCorrectCount = @ + 1,
       !.focusScore = Min(FOCUS_MAX * Scale, @ + FOCUS_REWARD * Scale)]

\* the failure branch
applyFailure(s) ==
    [s EXCEPT
       !.streak = 0,
       !.focusScore = Max(0, @ - FOCUS_PENALTY * Scale)]

\* mutant: every failure plays the error sound
soundOf_Always(direction, isSuccess) ==
    IF isSuccess THEN "CORRECT" ELSE "INCORRECT"

\* the sound handleSwipe plays
soundOf(direction, isSuccess) ==
    IF isSuccess THEN "CORRECT"
    ELSE IF direction # "NONE" THEN "INCORRECT"
    ELSE "NONE"

\* mutant: a swipe on the empty queue is handled as a wrong answer
emptyQueueReturn_Penalize(s, direction) ==
    [applyFailure(s) EXCEPT !.calls =
        Append(@, CallRecord(direction, FALSE, FALSE, FALSE, "NONE"))]

\* handleSwipe on an empty queue: the early return
emptyQueueReturn(s, direction) ==
    [s EXCEPT !.calls =
        Append(@, CallRecord(direction, FALSE, FALSE, FALSE, "NONE"))]

\* handleSwipe(direction) on state s
\* mutant: the accuracy of a round leaves out its last judgment
handleSwipe_StaleCount(s, direction) ==
    IF Len(s.questions) = 0
    THEN emptyQueueReturn(s, direction)
    ELSE
    LET currentCard == Head(s.questions)
        isSuccess == IsSuccess(direction, currentCard.isCorrect)
        s1 == [resetQuestionTimer(s) EXCEPT
                !.calls = Append(@, CallRecord(direction, TRUE,
                                   currentCard.isCorrect, isSuccess,
                                   soundOf(direction, isSuccess))),
                !.roundLog = IF Len(@) + 1 = QUESTIONS_PER_ROUND
                             THEN <<>>
                             ELSE Append(@, isSuccess),
                !.judgedIds = @ \cup {currentCard.id}]
        s2 == IF isSuccess THEN applySuccess(s1, s.streak) ELSE applyFailure(s1)
        nextQuestionCount == s.questionsAnswered + 1
        s3 == [s2 EXCEPT !.questionsAnswered = nextQuestionCount]
        s4 == IF nextQuestionCount % QUESTIONS_PER_ROUND = 0
              THEN [checkDifficulty(s, s3, s.roundCorrectCount) EXCEPT
                      !.roundCorrectCount = 0]
              ELSE IF Len(s.questions) < REFILL_BELOW
                   THEN loadQuestions(s3, s.level, FALSE)
                   ELSE s3
    IN  [s4 EXCEPT !.questions = Tail(@)]

handleSwipe(s, direction) ==
    IF Len(s.questions) = 0
    THEN emptyQueueReturn(s, direction)
    ELSE
    LET currentCard == Head(s.questions)
        isSuccess == IsSuccess(direction, currentCard.isCorrect)
        s1 == [resetQuestionTimer(s) EXCEPT
                !.calls = Append(@, CallRecord(direction, TRUE,
                                   currentCard.isCorrect, isSuccess,
                                   soundOf(direction, isSuccess))),
                !.roundLog = IF Len(@) + 1 = QUESTIONS_PER_ROUND
                             THEN <<>>
                             ELSE Append(@, isSuccess),
                !.judgedIds = @ \cup {currentCard.id}]
        s2 == IF isSuccess THEN applySuccess(s1, s.streak) ELSE applyFailure(s1)
        nextQuestionCount == s.questionsAnswered + 1
        s3 == [s2 EXCEPT !.questionsAnswered = nextQuestionCount]
        s4 == IF nextQuestionCount % QUESTIONS_PER_ROUND = 0
              THEN LET finalRoundCorrect ==
                           IF isSuccess THEN s.roundCorrectCount + 1
                           ELSE s.roundCorrectCount
                       accuracy == (finalRoundCorrect * 10) \div QUESTIONS_PER_ROUND
                   IN  [checkDifficulty(s, s3, accuracy) EXCEPT
                          !.roundCorrectCount = 0]
              ELSE IF Len(s.questions) < REFILL_BELOW
                   THEN loadQuestions(s3, s.level, FALSE)
                   ELSE s3
    IN  [s4 EXCEPT !.questions = Tail(@)]

-----------------------------------------------------------------------------
(* Effects run after a render *)

\* condition of the question-timeout effect
TimeoutDue(s) ==
    /\ s.gameState = "PLAYING"
    /\ s.questionTimeLeft <= 0
    /\ Len(s.questions) > 0

\* clearInterval(globalTimerRef.current), guarded by the ref being set
clearTimer(s) ==
    IF s.globalTimerRef # 0
    THEN [s EXCEPT !.intervals = @ \ {s.globalTimerRef}]
    ELSE s

\* window.setInterval: a handle that no armed interval has.  Handles are
\* only compared for identity, so the handle of a cleared interval is reused.
setInterval(s) ==
    LET h == CHOOSE n \in 1..(Cardinality(s.intervals) + 1) : n \notin s.intervals
    IN  [s EXCEPT !.intervals = @ \cup {h}, !.globalTimerRef = h,
                  !.armedFor = 0]

\* mutant: the effect arms a new interval without its cleanup having run
timerEffect_NoCleanup(old, s) ==
    IF \/ old.gameState # s.gameState
       \/ old.focusScore # s.focusScore
       \/ Len(old.questions) # Len(s.questions)
    THEN IF s.gameState = "PLAYING" THEN setInterval(s) ELSE s
    ELSE s

\* The tick effect, on a render that changed gameState, focusScore or
\* questions.length since the render before (old): the cleanup of the last
\* run, then a new interval when PLAYING.
timerEffect(old, s) ==
    IF \/ old.gameState # s.gameState
       \/ old.focusScore # s.focusScore
       \/ Len(old.questions) # Len(s.questions)
    THEN LET s1 == clearTimer(s)
         IN  IF s1.gameState = "PLAYING" THEN setInterval(s1) ELSE s1
    ELSE s

\* The effects of the render that follows a handler: the tick effect, then
\* the timeout effect, whose handleSwipe causes a further render, until the
\* timeout condition is false.  old is the state of the render before.
RECURSIVE RunEffects(_, _)
RunEffects(old, s) ==
    LET s1 == timerEffect(old, s)
    IN  IF TimeoutDue(s1) THEN RunEffects(s1, handleSwipe(s1, "NONE")) ELSE s1

-----------------------------------------------------------------------------
(* Handlers *)

\* mutant: the game is shown as PLAYING before the first questions arrived
startGame_NoLoading(s) ==
    LET startLimit == getQuestionTimeLimit(1)
        s1 == [s EXCEPT
                !.gameState = "PLAYING",
                !.score = 0,
                !.streak = 0,
                !.focusScore = FOCUS_START * Scale,
                !.gameTimeLeft = MAX_GAME_TIME * Scale,
                !.questions = <<>>,
                !.level = 1,
                !.questionsAnswered = 0,
                !.roundCorrectCount = 0,
                !.roundHistory = <<>>,
                !.currentQuestionMaxTime = startLimit,
                !.questionTimeLeft = startLimit,
                !.session = @ + 1,
                !.sinceTick = 0,
                !.ticks = 0,
                !.roundLog = <<>>,
                !.judgedIds = {},
                !.leftBehind = [score |-> s.score, level |-> s.level]]
    IN  loadQuestions(s1, 1, TRUE)

\* mutant: a game start that keeps the level of the game before
startGame_KeepLevel(s) ==
    LET startLimit == getQuestionTimeLimit(1)
        s1 == [s EXCEPT
                !.gameState = "LOADING",
                !.score = 0,
                !.streak = 0,
                !.focusScore = FOCUS_START * Scale,
                !.gameTimeLeft = MAX_GAME_TIME * Scale,
                !.questions = <<>>,
                !.questionsAnswered = 0,
                !.roundCorrectCount = 0,
                !.roundHistory = <<>>,
                !.currentQuestionMaxTime = startLimit,
                !.questionTimeLeft = startLimit,
                !.session = @ + 1,
                !.sinceTick = 0,
                !.ticks = 0,
                !.roundLog = <<>>,
                !.judgedIds = {},
                !.leftBehind = [score |-> s.score, level |-> s.level]]
    IN  loadQuestions(s1, 1, TRUE)

\* startGame up to its await
startGame(s) ==
    LET startLimit == getQuestionTimeLimit(1)
        s1 == [s EXCEPT
                !.gameState = "LOADING",
                !.score = 0,
                !.streak = 0,
                !.focusScore = FOCUS_START * Scale,
                !.gameTimeLeft = MAX_GAME_TIME * Scale,
                !.questions = <<>>,
                !.level = 1,
                !.questionsAnswered = 0,
                !.roundCorrectCount = 0,
                !.roundHistory = <<>>,
                !.currentQuestionMaxTime = startLimit,
                !.questionTimeLeft = startLimit,
                !.session = @ + 1,
                !.sinceTick = 0,
                !.ticks = 0,
                !.roundLog = <<>>,
                !.judgedIds = {},
                !.leftBehind = [score |-> s.score, level |-> s.level]]
    IN  loadQuestions(s1, 1, TRUE)

\* mutant: the questions of a load go in front of the queue
loadComplete_Prepend(s, i, pattern, remote) ==
    LET req == s.pending[i]
        newQuestions ==
            generateQuestions(QUESTIONS_PER_ROUND, req.level, s.nextId,
                              pattern, remote)
        s1 == [s EXCEPT
                !.questions = newQuestions \o @,
                !.nextId = @ + Len(newQuestions),
                !.pending = SubSeq(@, 1, i - 1) \o SubSeq(@, i + 1, Len(@))]
    IN  IF req.starter THEN [s1 EXCEPT !.gameState = "PLAYING"] ELSE s1

\* mutant: every load that resolves puts the game into PLAYING
loadComplete_Resurrect(s, i, pattern, remote) ==
    LET req == s.pending[i]
        newQuestions ==
            generateQuestions(QUESTIONS_PER_ROUND, req.level, s.nextId,
                              pattern, remote)
    IN  [s EXCEPT
           !.questions = @ \o newQuestions,
           !.nextId = @ + Len(newQuestions),
           !.pending = SubSeq(@, 1, i - 1) \o SubSeq(@, i + 1, Len(@)),
           !.gameState = "PLAYING"]

\* the rest of loadQuestions once generateQuestions resolved for request i,
\* and the rest of startGame when that request was the one it awaited
loadComplete(s, i, pattern, remote) ==
    LET req == s.pending[i]
        newQuestions ==
            generateQuestions(QUESTIONS_PER_ROUND, req.level, s.nextId,
                              pattern, remote)
        s1 == [s EXCEPT
                !.questions = @ \o newQuestions,
                !.nextId = @ + Len(newQuestions),
                !.pending = SubSeq(@, 1, i - 1) \o SubSeq(@, i + 1, Len(@))]
    IN  IF req.starter THEN [s1 EXCEPT !.gameState = "PLAYING"] ELSE s1

\* endGame
endGame(s) == clearTimer([s EXCEPT !.gameState = "GAME_OVER"])

\* mutant: the end-of-game test is prev < timePassed
tick_StrictClamp(s) ==
    LET tp == timePassed(s.focusScore)
        s1 == IF s.gameTimeLeft < tp
              THEN [endGame(s) EXCEPT !.gameTimeLeft = 0]
              ELSE [s EXCEPT !.gameTimeLeft = @ - tp]
        s2 == IF Len(s.questions) > 0
              THEN [s1 EXCEPT !.questionTimeLeft = Max(0, @ - tp)]
              ELSE s1
    IN  [s2 EXCEPT !.focusScore = Max(0, @ - FOCUS_DECAY),
                   !.armedFor = 0, !.sinceTick = 0, !.ticks = @ + 1]

\* mutant: the question timer counts down on an empty queue as well
tick_AlwaysCount(s) ==
    LET tp == timePassed(s.focusScore)
        s1 == IF s.gameTimeLeft <= tp
              THEN [endGame(s) EXCEPT !.gameTimeLeft = 0]
              ELSE [s EXCEPT !.gameTimeLeft = @ - tp]
        s2 == [s1 EXCEPT !.questionTimeLeft = Max(0, @ - tp)]
    IN  [s2 EXCEPT !.focusScore = Max(0, @ - FOCUS_DECAY),
                   !.armedFor = 0, !.sinceTick = 0, !.ticks = @ + 1]

\* one callback of the interval; the interval starts its next period
tick(s) ==
    LET tp == timePassed(s.focusScore)
        s1 == IF s.gameTimeLeft <= tp
              THEN [endGame(s) EXCEPT !.gameTimeLeft = 0]
              ELSE [s EXCEPT !.gameTimeLeft = @ - tp]
        s2 == IF Len(s.questions) > 0
              THEN [s1 EXCEPT !.questionTimeLeft = Max(0, @ - tp)]
              ELSE s1
    IN  [s2 EXCEPT !.focusScore = Max(0, @ - FOCUS_DECAY),
                   !.armedFor = 0, !.sinceTick = 0, !.ticks = @ + 1]

-----------------------------------------------------------------------------
(* The local generator of geminiService: generateEquationForLevel.  An     *)
(* equation string `a op b` is the record of its operands and operator;    *)
(* randomInt(min, max) is a choice from min..max and Math.random() > 0.5   *)
(* a choice of a boolean.                                                  *)

\* levels of the local generator that are explored
MaxFallbackLevel == 3

ops == {"+", "-"}

mixedOps == {"+", "-", "*", "/"}

Str(a, op, b) == [a |-> a, op |-> op, b |-> b]

Expr(equationStr, correctAnswer) ==
    [equationStr |-> equationStr, correctAnswer |-> correctAnswer]

\* cases 1 and 2: addition and subtraction within limit (10 or 20)
addOrSubtract(limit, op, a, b) ==
    IF op = "+"
    THEN IF a + b <= limit
         THEN Expr(Str(a, "+", b), a + b)
         ELSE Expr(Str(a + b, "-", b), a)
    ELSE Expr(Str(Max(a, b), "-", Min(a, b)), Max(a, b) - Min(a, b))

\* case 3: one of the four operations
simpleMixed(op, a, b) ==
    IF op = "*" THEN Expr(Str(a, "*", b), a * b)
    ELSE IF op = "/" THEN Expr(Str(b * a, "/", b), a)
    ELSE IF op = "+" THEN Expr(Str(a, "+", b), a + b)
    ELSE Expr(Str(Max(a, b), "-", Min(a, b)), Max(a, b) - Min(a, b))

\* case 4: two-digit numbers without carry or borrow
noCarry(op, aTens, aUnits, bTens, bUnits) ==
    LET A == aTens * 10 + aUnits
        B == bTens * 10 + bUnits
    IN  IF op = "+" THEN Expr(Str(A, "+", B), A + B)
        ELSE Expr(Str(A, "-", B), A - B)

\* the equations the switch can build for a level, with their answers
Expressions(lvl) ==
    CASE lvl = 1 ->
            {addOrSubtract(10, op, a, b) : op \in ops, a \in 1..10, b \in 1..10}
      [] lvl = 2 ->
            {addOrSubtract(20, op, a, b) : op \in ops, a \in 1..20, b \in 1..20}
      [] lvl = 3 ->
            {simpleMixed(op, a, b) : op \in mixedOps \ ops, a \in 2..9, b \in 2..9}
            \cup {simpleMixed(op, a, b) : op \in ops, a \in 1..50, b \in 1..50}
      [] lvl = 4 ->
            {noCarry("+", aTens, aUnits, bTens, bUnits) :
                aTens \in 1..4, aUnits \in 0..4, bTens \in 1..4, bUnits \in 0..4}
            \cup UNION {{noCarry("-", aTens, aUnits, bTens, bUnits) :
                            bTens \in 1..aTens, bUnits \in 0..aUnits} :
                         aTens \in 2..9, aUnits \in 1..9}
      [] OTHER ->
            {Expr(Str(a, "+", b), a + b) : a \in 1..10, b \in 1..10}

\* the final display value: the answer, or a wrong value close to it
displayValueOf(correctAnswer, shouldBeCorrect, size, positive) ==
    IF shouldBeCorrect THEN correctAnswer
    ELSE LET offset == size * (IF positive THEN 1 ELSE -1)
             displayValue == correctAnswer + offset
         IN  IF displayValue < 0 THEN -displayValue ELSE displayValue

\* generateEquationForLevel, for one outcome of its random draws;
\* the result is `${equationStr} = ${displayValue}` and isCorrect
generateEquationForLevel(expr, shouldBeCorrect, size, positive) ==
    [equation |-> expr.equationStr,
     displayValue |-> displayValueOf(expr.correctAnswer, shouldBeCorrect,
                                     size, positive),
     isCorrect |-> shouldBeCorrect]

\* prob before the loop of the fallback has made a problem
NoProblem ==
    [equation |-> Str(0, "", 0), displayValue |-> 0, isCorrect |-> TRUE]

-----------------------------------------------------------------------------
(* Actions *)

Init ==
    /\ gameState = "MENU"
    /\ questions = <<>>
    /\ score = 0
    /\ gameTimeLeft = MAX_GAME_TIME * Scale
    /\ questionTimeLeft = 0
    /\ currentQuestionMaxTime = 4 * Scale
    /\ streak = 0
    /\ level = 1
    /\ questionsAnswered = 0
    /\ roundCorrectCount = 0
    /\ roundHistory = <<>>
    /\ focusScore = FOCUS_START * Scale
    /\ pending = <<>>
    /\ nextId = 1
    /\ session = 0
    /\ calls = <<>>
    /\ intervals = {}
    /\ globalTimerRef = 0
    /\ armedFor = 0
    /\ sinceTick = 0
    /\ ticks = 0
    /\ roundLog = <<>>
    /\ judgedIds = {}
    /\ leftBehind = [score |-> 0, level |-> 1]
    /\ prob = NoProblem

\* the START GAME / PLAY AGAIN button, rendered in MENU and GAME_OVER
StartGame ==
    /\ gameState \in {"MENU", "GAME_OVER"}
    /\ session < MaxSessions
    /\ \E s0 \in {Cur} : \E s1 \in {startGame(s0)} :
           \E s2 \in {RunEffects(s0, s1)} : Commit(s2)

\* a request in flight resolves
LoadCompleteWith(remote) ==
    \E i \in 1..Len(pending), pattern \in Patterns :
        \E s0 \in {Cur} : \E s1 \in {loadComplete(s0, i, pattern, remote)} :
            \E s2 \in {RunEffects(s0, s1)} : Commit(s2)

\* the source resolves with the count problems that were asked for
LoadComplete == LoadCompleteWith(RemoteFailed)

\* d ms of real time pass in which no handler runs: the armed interval is
\* not yet due
Wait(d) ==
    /\ intervals # {}
    /\ armedFor + d < TICK_MS
    /\ Commit([Cur EXCEPT !.armedFor = @ + d, !.sinceTick = @ + d])

\* the rest of the period passes and an armed interval fires
Tick ==
    /\ intervals # {}
    /\ \E s0 \in {Cur} : \E s1 \in {tick(s0)} :
           \E s2 \in {RunEffects(s0, s1)} : Commit(s2)

\* the player swipes the front card; cards are rendered only while PLAYING
Swipe(direction) ==
    /\ gameState = "PLAYING"
    /\ \E s0 \in {Cur} : \E s1 \in {handleSwipe(s0, direction)} :
           \E s2 \in {RunEffects(s0, s1)} : Commit(s2)

SwipeRight == Swipe("RIGHT")

SwipeLeft == Swipe("LEFT")

\* hundredths of game time consumed so far
Elapsed == MAX_GAME_TIME * Scale - gameTimeLeft

EarlyTick == Elapsed < MaxElapsed /\ Tick

EarlySwipeRight == questionsAnswered < MaxAnswered /\ SwipeRight

EarlySwipeLeft == questionsAnswered < MaxAnswered /\ SwipeLeft

Next ==
    \/ StartGame
    \/ LoadComplete
    \/ EarlyTick
    \/ EarlySwipeRight
    \/ EarlySwipeLeft

Spec == Init /\ [][Next]_vars

-----------------------------------------------------------------------------
(* SpecRounds: rounds and levels.  The player answers between two ticks    *)
(* and every refill resolves before the next answer.  The player misses    *)
(* only before the first success of a round, so that every round accuracy  *)
(* 0/10 .. 10/10 occurs: in every round of the first MaxJudgments          *)
(* judgments, then along the climb of a player who never missed, up to     *)
(* MaxClimb judgments, and in the rounds played at the top level.          *)

\* SpecRounds: judgments explored with any accuracy
MaxJudgments == 30

\* SpecRounds: judgments explored for the climb to the top level
MaxClimb == 200

\* what the swipe would be judged as
WouldSucceed(direction) ==
    /\ Len(questions) > 0
    /\ IsSuccess(direction, Head(questions).isCorrect)

RoundSwipe(direction) ==
    /\ questionsAnswered < MaxClimb
    /\ \/ questionsAnswered < MaxJudgments
       \/ streak = questionsAnswered
       \/ level = MAX_LEVEL
    /\ pending = <<>>
    /\ WouldSucceed(direction) \/ roundCorrectCount = 0
    /\ Swipe(direction)

RoundSwipeRight == RoundSwipe("RIGHT")

RoundSwipeLeft == RoundSwipe("LEFT")

NextRounds ==
    \/ StartGame
    \/ LoadComplete
    \/ RoundSwipeRight
    \/ RoundSwipeLeft

SpecRounds == Init /\ [][NextRounds]_vars

-----------------------------------------------------------------------------
(* SpecLevels: the rounds of SpecRounds with the clock running.  The first *)
(* ticks of the game, up to MaxLevelElapsed of game time, fall between two *)
(* rounds, at any focus score the rounds played so far have left.          *)

\* game time, in hundredths, during which ticks are explored
MaxLevelElapsed == 30

LevelTick ==
    /\ pending = <<>>
    /\ questionsAnswered % QUESTIONS_PER_ROUND = 0
    /\ Elapsed < MaxLevelElapsed
    /\ Tick

NextLevels ==
    \/ StartGame
    \/ LoadComplete
    \/ LevelTick
    \/ RoundSwipeRight
    \/ RoundSwipeLeft

SpecLevels == Init /\ [][NextLevels]_vars

-----------------------------------------------------------------------------
(* SpecClock: a whole game.  The player answers the first questions and    *)
(* then lets every question time out until the global timer runs out.      *)

\* SpecClock: judgments after which the player stops swiping
MaxClockSwipes == 1

ClockSwipeRight == questionsAnswered < MaxClockSwipes /\ SwipeRight

ClockSwipeLeft == questionsAnswered < MaxClockSwipes /\ SwipeLeft

\* every refill resolves within the tick period
ClockTick == pending = <<>> /\ Tick

NextClock ==
    \/ StartGame
    \/ LoadComplete
    \/ ClockTick
    \/ ClockSwipeRight
    \/ ClockSwipeLeft

SpecClock == Init /\ [][NextClock]_vars

-----------------------------------------------------------------------------
(* SpecLate: a question source slower than the game.  The player lets      *)
(* every question time out; only the load a game start waits for resolves  *)
(* while the game is played, every refill resolves after the global timer  *)
(* has run out: in GAME_OVER, or during or after the next game start.      *)

LateLoadComplete == gameState # "PLAYING" /\ LoadComplete

NextLate ==
    \/ StartGame
    \/ LateLoadComplete
    \/ Tick

SpecLate == Init /\ [][NextLate]_vars

-----------------------------------------------------------------------------
(* SpecSource: an unreliable question source.  On every request the remote *)
(* call fails, and the local generator answers, or it succeeds with an     *)
(* answer of ShortBatch problems.  Loads resolve at any moment and in any  *)
(* order, between the first ticks of the game and the answers of a player  *)
(* who misses only before the first success of a round.                    *)

\* problems in a short answer of the remote call
ShortBatch == 0

\* judgments explored per game
MaxSourceJudgments == 11

\* hundredths of game time during which ticks are explored
MaxSourceElapsed == 20

SourceTick == Elapsed < MaxSourceElapsed /\ Tick

SourceLoadComplete ==
    \E remote \in {RemoteFailed, RemoteProblems(ShortBatch)} :
        LoadCompleteWith(remote)

SourceSwipe(direction) ==
    /\ questionsAnswered < MaxSourceJudgments
    /\ WouldSucceed(direction) \/ roundCorrectCount = 0
    /\ Swipe(direction)

SourceSwipeRight == SourceSwipe("RIGHT")

SourceSwipeLeft == SourceSwipe("LEFT")

NextSource ==
    \/ StartGame
    \/ SourceLoadComplete
    \/ SourceTick
    \/ SourceSwipeRight
    \/ SourceSwipeLeft

SpecSource == Init /\ [][NextSource]_vars

-----------------------------------------------------------------------------
(* SpecTiming: real time.  During the first ticks of a game the player     *)
(* answers at the moment of a tick or WaitStep ms after it.                *)

\* ms between a tick and an answer of the player
WaitStep == 50

\* judgments explored per game
MaxTimingSwipes == 2

\* hundredths of game time during which ticks are explored
MaxTimingElapsed == 40

TimingWait == Wait(WaitStep)

TimingTick == Elapsed < MaxTimingElapsed /\ Tick

TimingSwipeRight == questionsAnswered < MaxTimingSwipes /\ SwipeRight

TimingSwipeLeft == questionsAnswered < MaxTimingSwipes /\ SwipeLeft

NextTiming ==
    \/ StartGame
    \/ LoadComplete
    \/ TimingWait
    \/ TimingTick
    \/ TimingSwipeRight
    \/ TimingSwipeLeft

SpecTiming == Init /\ [][NextTiming]_vars

-----------------------------------------------------------------------------
(* SpecKeeper: one game of a player who keeps the focus score high.  The   *)
(* player answers correctly before the first tick until the score is HIGH, *)
(* and afterwards only when the next tick would take the score out of      *)
(* HIGH; a player who misses that moment lets the rest of the game time    *)
(* out.  Refills resolve before the next tick.  SpecKeeperFair adds what   *)
(* the scheduling gives: an armed interval fires, a load resolves.         *)

KeeperStartGame == session = 0 /\ StartGame

KeeperTick == pending = <<>> /\ Tick

KeeperSwipe(direction) ==
    /\ WouldSucceed(direction)
    /\ \/ ticks = 0 /\ focusScore < FOCUS_HIGH * Scale
       \/ /\ focusScore >= FOCUS_HIGH * Scale
          /\ focusScore < FOCUS_HIGH * Scale + FOCUS_DECAY
    /\ Swipe(direction)

KeeperSwipeRight == KeeperSwipe("RIGHT")

KeeperSwipeLeft == KeeperSwipe("LEFT")

NextKeeper ==
    \/ KeeperStartGame
    \/ LoadComplete
    \/ KeeperTick
    \/ KeeperSwipeRight
    \/ KeeperSwipeLeft

SpecKeeper == Init /\ [][NextKeeper]_vars

SpecKeeperFair ==
    /\ SpecKeeper
    /\ WF_vars(KeeperTick)
    /\ WF_vars(LoadComplete)

-----------------------------------------------------------------------------
(* SpecReplay: a game played again.  A fast player answers the first       *)
(* MaxReplaySwipes questions correctly before the first tick, which takes  *)
(* the level up, lets the rest of the game time out and starts the next    *)
(* game from GAME_OVER.  Refills resolve before the next answer or tick.   *)

\* correct answers of the player per game
MaxReplaySwipes == 60

ReplaySwipe(direction) ==
    /\ ticks = 0
    /\ pending = <<>>
    /\ questionsAnswered < MaxReplaySwipes
    /\ WouldSucceed(direction)
    /\ Swipe(direction)

ReplaySwipeRight == ReplaySwipe("RIGHT")

ReplaySwipeLeft == ReplaySwipe("LEFT")

ReplayTick ==
    /\ pending = <<>>
    /\ questionsAnswered >= MaxReplaySwipes
    /\ Tick

NextReplay ==
    \/ StartGame
    \/ LoadComplete
    \/ ReplayTick
    \/ ReplaySwipeRight
    \/ ReplaySwipeLeft

SpecReplay == Init /\ [][NextReplay]_vars

-----------------------------------------------------------------------------
(* SpecFallback: the loop of the local fallback in generateQuestions.      *)
(* Every iteration makes one problem, for any outcome of the random draws, *)
(* and pushes it.                                                          *)

GenerateEquation ==
    /\ prob = NoProblem
    /\ \E lvl \in 1..MaxFallbackLevel : \E expr \in Expressions(lvl) :
        \E shouldBeCorrect \in BOOLEAN, size \in 1..5, positive \in BOOLEAN :
            Commit([Cur EXCEPT
                !.prob = generateEquationForLevel(expr, shouldBeCorrect,
                                                  size, positive)])

PushProblem ==
    /\ prob # NoProblem
    /\ Commit([Cur EXCEPT !.prob = NoProblem])

NextFallback ==
    \/ GenerateEquation
    \/ PushProblem

SpecFallback == Init /\ [][NextFallback]_vars

-----------------------------------------------------------------------------
(* SpecStarve: a slow question source.  A refill resolves only once the    *)
(* queue has run dry, so the player meets the empty queue.                 *)

\* SpecStarve: judgments explored per game
MaxStarveJudgments == 12

\* SpecStarve: hundredths of game time explored
MaxStarveElapsed == 50

StarveLoadComplete == Len(questions) = 0 /\ LoadComplete

StarveTick == Elapsed < MaxStarveElapsed /\ Tick

StarveSwipe(direction) ==
    /\ questionsAnswered < MaxStarveJudgments
    /\ WouldSucceed(direction) \/ roundCorrectCount = 0
    /\ Swipe(direction)

StarveSwipeRight == StarveSwipe("RIGHT")

StarveSwipeLeft == StarveSwipe("LEFT")

NextStarve ==
    \/ StartGame
    \/ StarveLoadComplete
    \/ StarveTick
    \/ StarveSwipeRight
    \/ StarveSwipeLeft

SpecStarve == Init /\ [][NextStarve]_vars

-----------------------------------------------------------------------------
(* Steps, as the properties below see them *)

\* a step of the interval: the only step that lowers the global timer
TickStep == gameState = "PLAYING" /\ gameTimeLeft' < gameTimeLeft

\* a step in which handleSwipe judged the front question
JudgedStep == calls' # <<>> /\ calls'[1].judged

\* the state the judgment of a step was made in: a timeout is judged after
\* the tick that ran the timer out
Pre == IF TickStep THEN tick(Cur) ELSE Cur

\* the requests in flight but the i-th
PendingWithout(i) ==
    SubSeq(pending, 1, i - 1) \o SubSeq(pending, i + 1, Len(pending))

\* a step in which a load resolved
LoadStep == Len(pending') < Len(pending)

\* the judgment of a step ends a round
RoundEndStep == JudgedStep /\ (Pre.questionsAnswered + 1) % QUESTIONS_PER_ROUND = 0

\* the accuracy, in tenths, of the round a RoundEndStep ends
RoundAccuracy ==
    IF calls'[1].isSuccess THEN Pre.roundCorrectCount + 1
    ELSE Pre.roundCorrectCount

-----------------------------------------------------------------------------
(* Properties *)

\* C1: while PLAYING the global timer never increases and stays in
\* [0, MAX_GAME_TIME]; a tick that finds it at or below the tick's timePassed
\* sets it to exactly 0 and moves to GAME_OVER in that tick, any other tick
\* lowers it by timePassed and stays PLAYING; PLAYING never shows a timer of 0.
C1_GlobalTimer ==
    [][gameState = "PLAYING" =>
        /\ gameTimeLeft' <= gameTimeLeft
        /\ gameTimeLeft' >= 0
        /\ gameTimeLeft <= MAX_GAME_TIME * Scale
        /\ gameState' = "PLAYING" => gameTimeLeft' > 0
        /\ gameTimeLeft' # gameTimeLeft =>
             IF gameTimeLeft <= timePassed(focusScore)
             THEN gameTimeLeft' = 0 /\ gameState' = "GAME_OVER"
             ELSE /\ gameTimeLeft' = gameTimeLeft - timePassed(focusScore)
                  /\ gameState' = "PLAYING"]_vars

\* a game ended by the global timer after the player let questions time out
C1_Witness ==
    /\ gameState = "GAME_OVER"
    /\ gameTimeLeft = 0
    /\ questionsAnswered > QUESTIONS_PER_ROUND

\* C2: a tick that runs the question timer out while the game goes on and a
\* question is displayed applies exactly one timeout judgment, to that
\* question: it alone is popped and the timer is rearmed above 0; no other
\* step applies a timeout, and no step applies more than one judgment.
C2_TimeoutOnce ==
    [][LET expiry ==
             /\ TickStep
             /\ gameState' = "PLAYING"
             /\ Len(questions) > 0
             /\ questionTimeLeft <= timePassed(focusScore)
           timeouts == {i \in 1..Len(calls') : calls'[i].direction = "NONE"}
       IN  /\ Len(calls') <= 1
           /\ expiry =>
                /\ Cardinality(timeouts) = 1
                /\ calls'[1].judged
                /\ questions' = Tail(questions)
                /\ questionsAnswered' = questionsAnswered + 1
                /\ questionTimeLeft' > 0
           /\ ~expiry => timeouts = {}]_vars

\* a timeout was just applied and the next question is displayed
C2_Witness ==
    /\ gameState = "PLAYING"
    /\ Len(calls) = 1
    /\ calls[1].direction = "NONE"
    /\ calls[1].judged
    /\ Len(questions) > 0
    /\ questionTimeLeft = currentQuestionMaxTime

\* C3: every judgment leaves the question timer at the time limit of the
\* level the game is at after the judgment, also when the judgment ends a
\* round and changes the level.
C3_TimerAtCurrentLevel ==
    (calls # <<>> /\ calls[1].judged) =>
        /\ questionTimeLeft = getQuestionTimeLimit(level)
        /\ currentQuestionMaxTime = getQuestionTimeLimit(level)

\* C4: the judged card is the front question, and the judgment is a success
\* exactly when the swipe is RIGHT on a correct equation or LEFT on a wrong
\* one; a timeout is never a success.  A success is what raises the streak.
C4_SuccessIff ==
    [][JudgedStep =>
        LET c == calls'[1]
            expected ==
                \/ c.direction = "RIGHT" /\ c.isCorrect
                \/ c.direction = "LEFT" /\ ~c.isCorrect
        IN  /\ c.direction \in Directions
            /\ c.isCorrect = Head(questions).isCorrect
            /\ c.isSuccess <=> expected
            /\ c.direction = "NONE" => ~c.isSuccess
            /\ expected => streak' = Pre.streak + 1
            /\ ~expected => streak' = 0]_vars

\* a wrong equation timed out: denying it would have been right, the timeout
\* is a failure
C4_Witness ==
    /\ Len(calls) = 1
    /\ calls[1].judged
    /\ calls[1].direction = "NONE"
    /\ ~calls[1].isCorrect
    /\ ~calls[1].isSuccess
    /\ streak = 0

\* C5, as stated: a success raises the round-correct count by 1.
C5_Original ==
    [][(JudgedStep /\ calls'[1].isSuccess) =>
        /\ score' = Pre.score + 10 + 2 * Pre.streak
        /\ streak' = Pre.streak + 1
        /\ roundCorrectCount' = Pre.roundCorrectCount + 1
        /\ focusScore' = Min(FOCUS_MAX * Scale, Pre.focusScore + FOCUS_REWARD * Scale)]_vars

\* C5, amended: a success adds 10 + 2 * streak to the score, raises the
\* streak by 1, sets the focus to min(100, focus + 4) and raises the
\* round-correct count by 1, except that the success that ends a round leaves
\* the count at 0; k successes from the start of a game score 10 + 12 + ... .
C5_Success ==
    [][(JudgedStep /\ calls'[1].isSuccess) =>
        /\ score' = Pre.score + 10 + 2 * Pre.streak
        /\ streak' = Pre.streak + 1
        /\ roundCorrectCount' =
             IF RoundEndStep THEN 0 ELSE Pre.roundCorrectCount + 1
        /\ focusScore' = Min(FOCUS_MAX * Scale, Pre.focusScore + FOCUS_REWARD * Scale)
        /\ streak' = questionsAnswered' =>
             score' = 10 * streak' + streak' * (streak' - 1)]_vars

\* three successes from the start of a game: 10 + 12 + 14
C5_Witness ==
    /\ questionsAnswered = 3
    /\ streak = 3
    /\ score = 36
    /\ roundCorrectCount = 3
    /\ focusScore = (FOCUS_START + 3 * FOCUS_REWARD) * Scale

\* C6, as stated: a failure leaves the round-correct count unchanged.
C6_Original ==
    [][(JudgedStep /\ ~calls'[1].isSuccess) =>
        /\ streak' = 0
        /\ focusScore' = Max(0, Pre.focusScore - FOCUS_PENALTY * Scale)
        /\ score' = Pre.score
        /\ roundCorrectCount' = Pre.roundCorrectCount
        /\ calls'[1].sound = "INCORRECT" <=> calls'[1].direction # "NONE"]_vars

\* C6, amended: a failure sets the streak to 0 and the focus to
\* max(0, focus - 12) and leaves the score unchanged; it leaves the
\* round-correct count unchanged, except that the failure that ends a round
\* resets it to 0; the error sound is played for a wrong swipe and no sound
\* for a timeout.
C6_Failure ==
    [][(JudgedStep /\ ~calls'[1].isSuccess) =>
        /\ streak' = 0
        /\ focusScore' = Max(0, Pre.focusScore - FOCUS_PENALTY * Scale)
        /\ score' = Pre.score
        /\ roundCorrectCount' =
             IF RoundEndStep THEN 0 ELSE Pre.roundCorrectCount
        /\ calls'[1].sound = "INCORRECT" <=> calls'[1].direction # "NONE"
        /\ calls'[1].direction = "NONE" => calls'[1].sound = "NONE"]_vars

\* a silent timeout after an earlier success: the score is kept, the streak
\* is gone and the focus is floored at 0
C6_Witness ==
    /\ Len(calls) = 1
    /\ calls[1].judged
    /\ calls[1].direction = "NONE"
    /\ calls[1].sound = "NONE"
    /\ score = 10
    /\ streak = 0
    /\ focusScore = 0

\* C7: a swipe that finds the queue empty is not judged and changes nothing:
\* no counter, timer, level, history, queue or phase is touched and no refill
\* is requested.
C7_EmptyQueueNoOp ==
    [][(calls' # <<>> /\ Len(questions) = 0) =>
        /\ ~calls'[1].judged
        /\ UNCHANGED <<gameState, questions, score, gameTimeLeft,
                       questionTimeLeft, currentQuestionMaxTime, streak,
                       level, questionsAnswered, roundCorrectCount,
                       roundHistory, focusScore, pending, nextId>>]_vars

\* the player swiped while the queue was empty and refills were in flight
C7_Witness ==
    /\ gameState = "PLAYING"
    /\ questions = <<>>
    /\ pending # <<>>
    /\ Len(calls) = 1
    /\ ~calls[1].judged
    /\ questionsAnswered = QUESTIONS_PER_ROUND

\* C8: a round that ends with accuracy <= 0.5 (5 of 10 included) moves the
\* level to max(1, level - 1), whatever the history holds.
C8_LevelDown ==
    [][(RoundEndStep /\ RoundAccuracy <= 5) =>
        level' = Max(1, Pre.level - 1)]_vars

\* a round with exactly 5 of 10 at level 2 brought the level back to 1
C8_Witness ==
    /\ questionsAnswered = 3 * QUESTIONS_PER_ROUND
    /\ level = 1
    /\ roundHistory = <<>>
    /\ streak = 5

\* C9: a round that ends with accuracy > 0.5 raises the level to
\* min(10, level + 1) exactly when the history is non-empty and the round and
\* the last history entry together have at least 19 of 20 correct; otherwise
\* the level is unchanged, so it never rises on an empty history.
C9_LevelUp ==
    [][(RoundEndStep /\ RoundAccuracy > 5) =>
        LET up == /\ Len(Pre.roundHistory) > 0
                  /\ RoundAccuracy + Last(Pre.roundHistory) >= 19
        IN  /\ level' = IF up THEN Min(10, Pre.level + 1) ELSE Pre.level
            /\ Pre.roundHistory = <<>> => level' = Pre.level]_vars

\* rounds of 9 and 10 of 10 raised the level from 1 to 2
C9_Witness ==
    /\ questionsAnswered = 2 * QUESTIONS_PER_ROUND
    /\ level = 2
    /\ roundHistory = <<>>
    /\ streak = 19

\* C10: a round end that matches no rule, or matches level-down at level 1,
\* or level-up at level 10, keeps the level and appends the round's accuracy
\* to the history, whose earlier entries are kept.
C10_HistoryAppend ==
    [][RoundEndStep =>
        LET acc == RoundAccuracy
            down == acc <= 5
            up == /\ ~down
                  /\ Len(Pre.roundHistory) > 0
                  /\ acc + Last(Pre.roundHistory) >= 19
            noChange ==
                \/ ~down /\ ~up
                \/ down /\ Pre.level = 1
                \/ up /\ Pre.level = 10
        IN  /\ noChange =>
                /\ level' = Pre.level
                /\ roundHistory' = Append(Pre.roundHistory, acc)
            /\ (Pre.questionsAnswered = 9 /\ acc = 6) =>
                roundHistory' = <<6>>]_vars

\* two rounds at level 10 with an average above 0.9: the level stays 10 and
\* both accuracies are in the history
C10_Witness ==
    /\ level = 10
    /\ Len(roundHistory) = 2
    /\ roundHistory[1] + roundHistory[2] >= 19
    /\ calls # <<>>

-----------------------------------------------------------------------------
\* C11: the level is always an integer in 1..10; within a session (a step
\* that is not a game start) it changes only in a judgment that ends a
\* round, and then by exactly 1: a tick, a judgment inside a round and the
\* completion of a load leave it as it is.
C11_LevelSteps ==
    [][/\ level \in 1..MAX_LEVEL
       /\ level' \in 1..MAX_LEVEL
       /\ (session' = session /\ level' # level) =>
             /\ RoundEndStep
             /\ level' = level + 1 \/ level' = level - 1]_vars

\* the clock has run, the player has reached the top level, and the last
\* round ended with a level change
C11_Witness ==
    /\ level = MAX_LEVEL
    /\ Elapsed > 0
    /\ questionsAnswered % QUESTIONS_PER_ROUND = 0
    /\ roundHistory = <<>>

-----------------------------------------------------------------------------
\* C12: the focus score is always in [0, 100]; a step changes it only by the
\* decay of a tick (0.15, floored at 0) followed, when the step judges a
\* question, by the reward of a success (4, capped at 100) or the penalty of
\* a failure (12, floored at 0); a game start sets it to 50.
C12_Focus ==
    [][LET decayed == IF TickStep THEN Max(0, focusScore - 15) ELSE focusScore
           judged ==
               IF ~JudgedStep THEN decayed
               ELSE IF calls'[1].isSuccess
                    THEN Min(100 * Scale, decayed + 4 * Scale)
                    ELSE Max(0, decayed - 12 * Scale)
       IN  /\ focusScore \in 0..(100 * Scale)
           /\ focusScore' \in 0..(100 * Scale)
           /\ focusScore' = IF session' # session THEN 50 * Scale ELSE judged]_vars

\* the clock has run and a success has been capped at 100
C12_Witness ==
    /\ focusScore = 100 * Scale
    /\ Elapsed > 0
    /\ streak > 0

-----------------------------------------------------------------------------
\* the time, in hundredths, that C13 states for a tick at the focus score of
\* the state the tick starts from
C13_Rate ==
    IF focusScore >= 55 * Scale THEN 7
    ELSE IF focusScore <= 30 * Scale THEN 14
    ELSE 10

\* the rate that goes with the classification of the same score
C13_RateOfState ==
    CASE getFocusState(focusScore) = "HIGH" -> 7
      [] getFocusState(focusScore) = "MEDIUM" -> 10
      [] getFocusState(focusScore) = "LOW" -> 14

\* C13 as stated: every tick takes the time of its focus state off the
\* global timer and off the question timer alike.
C13_Original ==
    [][TickStep =>
         /\ C13_Rate = C13_RateOfState
         /\ gameTimeLeft' = Max(0, gameTimeLeft - C13_Rate)
         /\ ~JudgedStep => questionTimeLeft' = Max(0, questionTimeLeft - C13_Rate)]_vars

\* C13, amended: every tick consumes 0.07 at a focus score >= 55, 0.14 at a
\* score <= 30 and 0.10 in between, the rate of the classification of the
\* same score; the global timer loses that amount (floored at 0), and the
\* question timer loses it (floored at 0) only when the queue is not empty:
\* with an empty queue the question timer stands still.  A timeout is judged
\* in the tick only when the amount ran the question timer out.
C13_TickRate ==
    [][TickStep =>
         /\ C13_Rate = C13_RateOfState
         /\ gameTimeLeft' = Max(0, gameTimeLeft - C13_Rate)
         /\ ~JudgedStep =>
               questionTimeLeft' =
                   IF Len(questions) > 0
                   THEN Max(0, questionTimeLeft - C13_Rate)
                   ELSE questionTimeLeft
         /\ JudgedStep =>
               /\ Len(questions) > 0
               /\ questionTimeLeft <= C13_Rate]_vars

\* nine misses and a success have emptied the queue and left a focus score
\* of 4; the only tick of the game came after them (the score shows its
\* decay), ran at the fast rate and left the question timer at its limit
C13_Witness ==
    /\ gameState = "PLAYING"
    /\ questions = <<>>
    /\ questionsAnswered = QUESTIONS_PER_ROUND
    /\ focusScore = 4 * Scale - 15
    /\ Elapsed = 14
    /\ questionTimeLeft = currentQuestionMaxTime

-----------------------------------------------------------------------------
\* C14: the phase moves only MENU -> LOADING, LOADING -> PLAYING,
\* PLAYING -> GAME_OVER and GAME_OVER -> LOADING; PLAYING is entered only by
\* the completion of the load that the game start of the current session
\* waits for, GAME_OVER only from PLAYING with the global timer reaching 0,
\* and outside PLAYING no tick moves the timers or the focus score.
C14_Phases ==
    [][/\ gameState' # gameState =>
             <<gameState, gameState'>> \in
                 {<<"MENU", "LOADING">>, <<"LOADING", "PLAYING">>,
                  <<"PLAYING", "GAME_OVER">>, <<"GAME_OVER", "LOADING">>}
       /\ (gameState' = "PLAYING" /\ gameState # "PLAYING") =>
             \E i \in 1..Len(pending) :
                /\ pending[i].starter
                /\ pending[i].session = session
                /\ pending' = PendingWithout(i)
       /\ (gameState' = "GAME_OVER" /\ gameState # "GAME_OVER") =>
             /\ TickStep
             /\ gameTimeLeft' = 0
       /\ (gameState # "PLAYING" /\ session' = session) =>
             UNCHANGED <<gameTimeLeft, questionTimeLeft, focusScore>>]_vars

\* a second game is being played after a game over
C14_Witness ==
    /\ gameState = "PLAYING"
    /\ session = 2
    /\ Elapsed > 0

-----------------------------------------------------------------------------
\* C15: every call generate(count, level) resolves, and with exactly count
\* questions, each tagged with the level of the request: a step in which a
\* load resolves appends QUESTIONS_PER_ROUND questions of the requested
\* level to the queue.
C15_CountAndLevel ==
    [][LoadStep =>
         \E i \in 1..Len(pending) :
            /\ pending' = PendingWithout(i)
            /\ Len(questions') = Len(questions) + QUESTIONS_PER_ROUND
            /\ \A k \in (Len(questions) + 1)..Len(questions') :
                  questions'[k].difficulty = pending[i].level]_vars

-----------------------------------------------------------------------------
\* C16: at every moment at most one interval is armed, and none outside
\* PLAYING; the armed interval is the one globalTimerRef holds, so that the
\* next re-arming or game end stops it.
C16_OneTickSource ==
    /\ Cardinality(intervals) <= 1
    /\ intervals # {} => gameState = "PLAYING" /\ intervals = {globalTimerRef}
    /\ gameState = "PLAYING" => intervals # {}

\* the interval of a second game is armed, after ticks and judgments of
\* that game have re-armed it
C16_Witness ==
    /\ session = 2
    /\ intervals = {globalTimerRef}
    /\ questionsAnswered > 0
    /\ Elapsed > 0

-----------------------------------------------------------------------------
\* C17: once the phase is GAME_OVER, a step is either a new game start,
\* which leads to LOADING, or it leaves the phase at GAME_OVER, judges no
\* question, arms no interval and changes none of score, streak, level,
\* focus score, round history, round counters and the two timers: a refill
\* that resolves after the game ended touches the queue only.
C17_GameOverFrozen ==
    [][gameState = "GAME_OVER" =>
         \/ /\ session' = session + 1
            /\ gameState' = "LOADING"
         \/ /\ session' = session
            /\ gameState' = "GAME_OVER"
            /\ ~JudgedStep
            /\ intervals' = {}
            /\ UNCHANGED <<score, streak, level, focusScore, roundHistory,
                           questionsAnswered, roundCorrectCount, gameTimeLeft,
                           questionTimeLeft, currentQuestionMaxTime>>]_vars

\* the first game is over and a refill it had requested has resolved since:
\* the queue, empty when the timer ran out, holds its questions
C17_Witness ==
    /\ gameState = "GAME_OVER"
    /\ session = 1
    /\ Len(questions) >= QUESTIONS_PER_ROUND
    /\ gameTimeLeft = 0

-----------------------------------------------------------------------------
\* C18: the questions of a load are appended to the queue only if the
\* session that requested the load is still the current one: when a load
\* requested in an earlier session resolves, the queue stays as it is.
C18_StaleDiscarded ==
    [][LoadStep =>
         \E i \in 1..Len(pending) :
            /\ pending' = PendingWithout(i)
            /\ pending[i].session # session => questions' = questions]_vars

-----------------------------------------------------------------------------
\* C19: after a judgment that does not end a round, if the queue left by the
\* pop holds fewer than 5 questions while the game is PLAYING, that judgment
\* has requested a refill at the current level: one more request is in
\* flight than before the judgment, the last, for that level.
C19_RefillAfterPop ==
    [][(/\ JudgedStep
        /\ ~RoundEndStep
        /\ ~LoadStep
        /\ gameState' = "PLAYING"
        /\ Len(questions') < 5) =>
         pending' = Append(pending, [level |-> level, starter |-> FALSE,
                                     session |-> session])]_vars

-----------------------------------------------------------------------------
\* C20: while the game is PLAYING, whenever a judgment leaves the queue
\* empty at least one refill request is in flight, whatever the order of
\* judgments, ticks and load completions before it.
C20_NeverStarved ==
    [][(JudgedStep /\ gameState' = "PLAYING" /\ questions' = <<>>) =>
         pending' # <<>>]_vars

\* the tenth judgment of a game has emptied the queue after every earlier
\* refill had resolved without a question: the one request in flight is the
\* one this judgment made
C20_Witness ==
    /\ gameState = "PLAYING"
    /\ questions = <<>>
    /\ questionsAnswered = QUESTIONS_PER_ROUND
    /\ calls # <<>>
    /\ Len(pending) = 1

-----------------------------------------------------------------------------
\* C21: ticks fire on a fixed period of 100 ms while PLAYING: when a tick
\* fires after an earlier tick of the session, 100 ms have passed since that
\* tick, whatever judgments or load completions happened in between.
C21_FixedPeriod ==
    [][(TickStep /\ ticks > 0) =>
         sinceTick + (TICK_MS - armedFor) = 100]_vars

-----------------------------------------------------------------------------
\* a round end that follows a round end which changed the level: the round
\* history is empty, and it is not the first round of the game
C22_AfterChange ==
    /\ RoundEndStep
    /\ questionsAnswered >= QUESTIONS_PER_ROUND
    /\ roundHistory = <<>>

\* C22 as stated: the round end that immediately follows a level change
\* never changes the level, neither up nor down.
C22_Original == [][C22_AfterChange => level' = level]_vars

\* C22, amended: the round end that immediately follows a level change never
\* raises the level; it lowers it by 1 exactly when the accuracy of that
\* round is at most 50% and the level is above 1.
C22_NoRaise ==
    [][C22_AfterChange =>
         IF RoundAccuracy <= 5 /\ level > 1
         THEN level' = level - 1
         ELSE level' = level]_vars

\* two perfect rounds have raised the level to 2, and the third round, with
\* at most 5 successes, has lowered it again at once
C22_Witness ==
    /\ questionsAnswered = 3 * QUESTIONS_PER_ROUND
    /\ level = 1
    /\ roundHistory = <<>>
    /\ score > 0

-----------------------------------------------------------------------------
\* C23: when a round end changes the level, the round history becomes empty,
\* exactly one load, of QUESTIONS_PER_ROUND questions at the new level, is
\* requested, and the queue keeps its questions but the judged front one;
\* the questions a load delivers go behind those already in the queue.
C23_LevelChange ==
    [][/\ (RoundEndStep /\ level' # level) =>
             /\ roundHistory' = <<>>
             /\ pending' = Append(pending, [level |-> level', starter |-> FALSE,
                                            session |-> session])
             /\ questions' = Tail(questions)
       /\ (LoadStep /\ ~JudgedStep) =>
             /\ Len(questions') >= Len(questions)
             /\ SubSeq(questions', 1, Len(questions)) = questions]_vars

\* the level has been raised to 2 and the refill of that change has
\* resolved: its questions stand behind the level-1 questions that were kept
C23_Witness ==
    /\ level = 2
    /\ roundHistory = <<>>
    /\ pending = <<>>
    /\ questions # <<>>
    /\ questions[1].difficulty = 1
    /\ questions[Len(questions)].difficulty = 2

-----------------------------------------------------------------------------
\* the successes among the judgments of the round so far
C24_Successes == Cardinality({k \in 1..Len(roundLog) : roundLog[k]})

\* the judgment of this step is the tenth of its round
C24_Tenth == JudgedStep /\ Len(roundLog) + 1 = 10

\* the successes of the round that the judgment of this step completes
C24_Final == C24_Successes + (IF calls'[1].isSuccess THEN 1 ELSE 0)

\* C24: the difficulty controller runs on the 10th, 20th, 30th, ... judgment
\* of a session and on no other: only then does the round history or the
\* level change.  The accuracy it receives is the number of successes among
\* the 10 judgments of the round, in tenths: it is what a round without a
\* level change appends to the history, and what a level change was decided
\* on.  The round-correct count counts the successes of the round so far
\* and is 0 when the next round begins.
C24_Controller ==
    [][session' = session =>
         /\ roundCorrectCount = C24_Successes
         /\ (roundHistory' # roundHistory \/ level' # level) => C24_Tenth
         /\ C24_Tenth =>
               /\ C24_Final \in 0..10
               /\ roundCorrectCount' = 0
               /\ \/ /\ level' = level
                     /\ roundHistory' = Append(roundHistory, C24_Final)
                  \/ /\ level' = level - 1
                     /\ roundHistory' = <<>>
                     /\ C24_Final <= 5
                  \/ /\ level' = level + 1
                     /\ roundHistory' = <<>>
                     /\ roundHistory # <<>>
                     /\ C24_Final + Last(roundHistory) > 18]_vars

\* a second round has ended: 3 misses and then 7 successes in the first
\* round, 10 successes in the second
C24_Witness ==
    /\ questionsAnswered = 20
    /\ roundHistory = <<7, 10>>
    /\ roundCorrectCount = 0
    /\ roundLog = <<>>

-----------------------------------------------------------------------------
\* C25: a judgment made on a non-empty queue judges the front question,
\* which has not been judged before in the session, removes exactly that
\* question and keeps the others in their order; a load that resolves
\* appends its questions at the back and touches no other; whatever the
\* order of swipes, timeouts and load completions.
C25_Fifo ==
    [][/\ JudgedStep =>
             /\ questions # <<>>
             /\ calls'[1].isCorrect = Head(questions).isCorrect
             /\ Head(questions).id \notin judgedIds
             /\ judgedIds' = judgedIds \cup {Head(questions).id}
             /\ questions' = Tail(questions)
       /\ (LoadStep /\ ~JudgedStep) =>
             /\ Len(questions') >= Len(questions)
             /\ SubSeq(questions', 1, Len(questions)) = questions
             /\ \A k \in (Len(questions) + 1)..Len(questions') :
                   questions'[k].id \notin judgedIds
       /\ (~JudgedStep /\ ~LoadStep /\ session' = session) =>
             questions' = questions]_vars

\* a refill has resolved between two judgments: questions of the first load
\* have been judged, the rest of it is still in front of the refill's
C25_Witness ==
    /\ gameState = "PLAYING"
    /\ Len(questions) > QUESTIONS_PER_ROUND
    /\ questions[1].id <= QUESTIONS_PER_ROUND
    /\ judgedIds # {}
    /\ pending # <<>>

-----------------------------------------------------------------------------
\* the timePassed of a tick that starts from the current focus score
C26_TimePassed ==
    IF focusScore >= 55 * Scale THEN 7
    ELSE IF focusScore <= 30 * Scale THEN 14
    ELSE 10

\* C26: a tick with an empty queue leaves the question timer as it is and
\* judges nothing; a tick with a non-empty queue lowers the timer by the
\* tick's timePassed, floored at 0, and the question is timed out in that
\* tick exactly when the floor is reached; the question timer is always in
\* [0, currentQuestionMaxTime].
C26_QuestionTimer ==
    [][/\ questionTimeLeft \in 0..currentQuestionMaxTime
       /\ questionTimeLeft' \in 0..currentQuestionMaxTime'
       /\ (TickStep /\ questions = <<>>) =>
             /\ ~JudgedStep
             /\ questionTimeLeft' = questionTimeLeft
       /\ (TickStep /\ questions # <<>>) =>
             IF questionTimeLeft > C26_TimePassed \/ gameState' # "PLAYING"
             THEN /\ ~JudgedStep
                  /\ questionTimeLeft' = Max(0, questionTimeLeft - C26_TimePassed)
             ELSE JudgedStep]_vars

\* the queue has been empty for most of a game: the question timer has
\* stayed at the limit it was given by the last judgment
C26_Witness ==
    /\ gameState = "PLAYING"
    /\ questions = <<>>
    /\ ticks > 500
    /\ questionTimeLeft = currentQuestionMaxTime

-----------------------------------------------------------------------------
\* C27: under fair ticking a session that is PLAYING reaches GAME_OVER, and
\* after at most 2143 ticks: every tick takes at least 0.07 off the global
\* timer or takes it to 0, and within a session nothing else changes the
\* global timer, so that no judgment and no load adds time to it.
C27_Terminates ==
    /\ [](ticks <= 2143)
    /\ [][session' = session =>
            IF TickStep
            THEN ticks' = ticks + 1
                 /\ (gameTimeLeft' <= gameTimeLeft - 7 \/ gameTimeLeft' = 0)
            ELSE ticks' = ticks /\ gameTimeLeft' = gameTimeLeft]_vars
    /\ (gameState = "PLAYING") ~> (gameState = "GAME_OVER")

\* a game played at a HIGH focus score throughout is over after exactly
\* 2143 ticks
C27_Witness ==
    /\ gameState = "GAME_OVER"
    /\ ticks = 2143
    /\ score > 0


-----------------------------------------------------------------------------
\* the values startGame gives a session
SessionReset ==
    /\ score = 0
    /\ streak = 0
    /\ focusScore = 50 * Scale
    /\ gameTimeLeft = 150 * Scale
    /\ level = 1
    /\ questionsAnswered = 0
    /\ roundCorrectCount = 0
    /\ roundHistory = <<>>
    /\ questionTimeLeft = 4 * Scale

\* C28: every game start resets the session.  Whenever the phase becomes
\* PLAYING, and for as long as the game is in PLAYING and no tick and no
\* judgment has run, score = 0, streak = 0, focus = 50, Global Timer = 150,
\* level = 1, questions-answered = 0, round-correct count = 0, the round
\* history is empty and the Question Timer is the level-1 limit of 4 s,
\* whatever the game before left behind.
C28_StartResets ==
    /\ [](gameState = "PLAYING" /\ ticks = 0 /\ judgedIds = {}
            => SessionReset)
    /\ [][gameState # "PLAYING" /\ gameState' = "PLAYING"
            => SessionReset']_vars

\* the second game has just started, after a game that ended above level 1
\* with a score
C28_Witness ==
    /\ gameState = "PLAYING"
    /\ session = 2
    /\ ticks = 0
    /\ judgedIds = {}
    /\ leftBehind.level > 1
    /\ leftBehind.score > 0
    /\ SessionReset

-----------------------------------------------------------------------------
\* the value of the left-hand expression of an equation, as arithmetic
\* gives it
TrueValue(equationStr) ==
    CASE equationStr.op = "+" -> equationStr.a + equationStr.b
      [] equationStr.op = "-" -> equationStr.a - equationStr.b
      [] equationStr.op = "*" -> equationStr.a * equationStr.b
      [] equationStr.op = "/" -> equationStr.a \div equationStr.b
      [] OTHER -> 0

\* C29: for every problem of the local generator, isCorrect is true exactly
\* when the displayed right-hand value equals the true value of the
\* left-hand expression; a problem with isCorrect = false displays another
\* value.
C29_IsCorrectExact ==
    prob # NoProblem => (prob.isCorrect <=> prob.displayValue = TrueValue(prob.equation))

-----------------------------------------------------------------------------
\* the requests of the current session that are in flight
InFlight == {i \in 1..Len(pending) : pending[i].session = session}

\* C30: at most one refill request is in flight at any time: no judgment
\* and no round end calls the question source while an earlier request of
\* the same session is unresolved.
C30_OneInFlight == Cardinality(InFlight) <= 1

-----------------------------------------------------------------------------
\* C31: while the game is PLAYING and the queue is empty, the Question Timer
\* equals the full current question limit: it is not 0 and no tick lowers
\* it.  The first question a load delivers to the empty queue starts with
\* the full limit and the step that delivers it judges nothing.
C31_FullWhileEmpty ==
    /\ [](gameState = "PLAYING" /\ questions = <<>>
            => /\ questionTimeLeft = currentQuestionMaxTime
               /\ questionTimeLeft > 0)
    /\ [][gameState = "PLAYING" /\ questions = <<>> /\ session' = session
            => /\ questionTimeLeft' = questionTimeLeft
               /\ currentQuestionMaxTime' = currentQuestionMaxTime
               /\ ~JudgedStep]_vars

\* the queue ran dry at the tenth judgment, the refill is still in flight
\* and the last step was a tick over the empty queue
C31_Witness ==
    /\ gameState = "PLAYING"
    /\ questions = <<>>
    /\ pending # <<>>
    /\ questionsAnswered = QUESTIONS_PER_ROUND
    /\ ticks > 0
    /\ calls = <<>>
    /\ questionTimeLeft = currentQuestionMaxTime
=============================================================================
